---- MODULE Spec2Model ----
(***************************************************************************)
(* Model of builder-playground's artifact assembly (internal/artifacts.go):*)
(* the JSON patch engine (overrideJSON / mergeMap), the artifact writer    *)
(* (output.WriteFile / WriteBatch / LogOutput), ArtifactsBuilder.Build and *)
(* runIt of main.go.                                                       *)
(***************************************************************************)
EXTENDS Integers, Sequences, FiniteSets, TLC

VARIABLES
    jsonData,       \* overrideJSON: the bytes handed in, as a JSON text tree
    overrides,      \* overrideJSON: the Go overrides map
    patched,        \* overrideJSON: what the last call returned
    wReq,           \* artifact writer: the call (operation, arguments, disk before)
    wDisk,          \* artifact writer: the files on disk
    wRes,           \* artifact writer: the error the call returned ("none": not yet)
    outputDir,          \* ArtifactsBuilder.outputDir, a path (<<>> is "")
    applyLatestL1Fork,  \* ArtifactsBuilder.applyLatestL1Fork
    genesisDelay,       \* ArtifactsBuilder.genesisDelay
    bPc,            \* Build: where the running Build stands ("idle": none running)
    bCtx,           \* Build: its local variables
    bRes,           \* Build: what the last Build returned, and what it had done
    tree,           \* the files under the output directory treeDir
    treeDir,        \* the output directory whose files tree holds
    lock,           \* output.lock: the caller holding the mutex, or Unlocked
    logPc,          \* LogOutput: per caller, where its call stands
    logCalls,       \* LogOutput: per caller, the calls it has made
    logRet,         \* LogOutput: per caller, what its last call returned
    logs,           \* the logs directory under the output: exists?, its files
    runPc           \* runIt (main.go): where the run stands

varsPatch == <<jsonData, overrides, patched>>
varsWrite == <<wReq, wDisk, wRes>>
varsBuilder == <<outputDir, applyLatestL1Fork, genesisDelay>>
varsBuild == <<bPc, bCtx, bRes, tree, treeDir>>
varsLog == <<lock, logPc, logCalls, logRet, logs>>
varsRun == <<runPc>>

(***************************************************************************)
(* Bounds of the patch engine's inputs.                                    *)
(***************************************************************************)
\* numeric leaves of the enumerated documents are 0..MaxNum
MaxNum == 2
\* a lighthouseKeystore of the writer's inputs holds at most MaxKeys keys
MaxKeys == 2

(***************************************************************************)
(* JSON numbers.  A number is the pair <<hi, lo>> standing for             *)
(* hi * LimbBase + lo, so that integers around 2^53 can be written down.   *)
(***************************************************************************)
LimbBase == 2^26
\* hi limb of 2^53, the first integer whose successor float64 cannot hold
F64ExactHi == 2^27

Small(n) == <<0, n>>

\* strconv.ParseFloat on an integer literal below 2^54: exact below 2^53,
\* round-half-to-even onto the even integers from 2^53 on.
F64Round(n) ==
    IF n[1] < F64ExactHi \/ n[2] % 2 = 0 THEN n
    ELSE LET down == n[2] - 1
             lo   == IF (down \div 2) % 2 = 0 THEN down ELSE n[2] + 1
         IN  IF lo = LimbBase THEN <<n[1] + 1, 0>> ELSE <<n[1], lo>>

(***************************************************************************)
(* JSON text (the []byte arguments and results), as a syntax tree:         *)
(*   obj (keys -> text), arr, num, str, null, and bad (not JSON at all).   *)
(* Go values (what json.Unmarshal builds and what callers pass):           *)
(*   map (map[string]interface{}), slice, float64, int, string, nil,       *)
(*   and chan (a value json.Marshal rejects).                              *)
(***************************************************************************)
TObj(f)  == [t |-> "obj", v |-> f]
TArr(s)  == [t |-> "arr", v |-> s]
TNum(n)  == [t |-> "num", v |-> n]
TStr(s)  == [t |-> "str", v |-> s]
\* JSON strings whose text is computed: "0x" and hex digits, a block hash
THex(ds) == [t |-> "hexstr", v |-> ds]
THash(h) == [t |-> "hashstr", v |-> h]
TNull    == [t |-> "null", v |-> 0]
TBad     == [t |-> "bad", v |-> 0]

GMap(f)   == [t |-> "map", v |-> f]
GSlice(s) == [t |-> "slice", v |-> s]
GFloat(n) == [t |-> "float64", v |-> n]
GInt(n)   == [t |-> "int", v |-> n]
GStr(s)   == [t |-> "string", v |-> s]
\* Go strings whose text is computed: a hexutil quantity (its hex digits) and
\* the String() of a block hash (the hash)
GHex(ds)  == [t |-> "hexstring", v |-> ds]
GHash(h)  == [t |-> "hashstring", v |-> h]
GNil      == [t |-> "nil", v |-> 0]
GChan     == [t |-> "chan", v |-> 0]
\* a nil map[string]interface{}: what Unmarshal leaves for the text null
GNilMap   == [t |-> "nilmap", v |-> 0]

\* json.Unmarshal into interface{}: objects to maps, numbers to float64
RECURSIVE Decode(_)
Decode(x) ==
    CASE x.t = "obj"  -> GMap([k \in DOMAIN x.v |-> Decode(x.v[k])])
      [] x.t = "arr"  -> GSlice([i \in DOMAIN x.v |-> Decode(x.v[i])])
      [] x.t = "num"  -> GFloat(F64Round(x.v))
      [] x.t = "str"  -> GStr(x.v)
      [] x.t = "hexstr"  -> GHex(x.v)
      [] x.t = "hashstr" -> GHash(x.v)
      [] OTHER        -> GNil

\* json.Unmarshal(jsonData, &original) with original a map[string]interface{}
Unmarshal(data) ==
    CASE data.t = "obj"  -> [err |-> FALSE, val |-> Decode(data)]
      [] data.t = "null" -> [err |-> FALSE, val |-> GNilMap]
      [] OTHER           -> [err |-> TRUE, val |-> GNilMap]

\* whether json.Marshal accepts the value
RECURSIVE Marshalable(_)
Marshalable(g) ==
    CASE g.t = "map"   -> \A k \in DOMAIN g.v : Marshalable(g.v[k])
      [] g.t = "slice" -> \A i \in DOMAIN g.v : Marshalable(g.v[i])
      [] g.t = "chan"  -> FALSE
      [] OTHER         -> TRUE

\* json.Marshal: a float64 or an int prints as the integer it holds
RECURSIVE Encode(_)
Encode(g) ==
    CASE g.t = "map"     -> TObj([k \in DOMAIN g.v |-> Encode(g.v[k])])
      [] g.t = "slice"   -> TArr([i \in DOMAIN g.v |-> Encode(g.v[i])])
      [] g.t = "float64" -> TNum(g.v)
      [] g.t = "int"     -> TNum(Small(g.v))
      [] g.t = "string"  -> TStr(g.v)
      [] g.t = "hexstring"  -> THex(g.v)
      [] g.t = "hashstring" -> THash(g.v)
      [] OTHER           -> TNull

\* mergeMap's test `dstVal.(map[string]interface{})` / `srcVal.(map...)`
IsMap(g) == g.t = "map"

MergeAlwaysReplace(dst, src) ==
    [k \in DOMAIN dst \cup DOMAIN src |->
        IF k \in DOMAIN src THEN src[k] ELSE dst[k]]

\* mergeMap(dst, src), as the map dst holds afterwards.  Every key of src is
\* handled on its own, so the order of Go's map iteration does not show.
RECURSIVE mergeMap(_, _)
mergeMap(dst, src) ==
    [k \in DOMAIN dst \cup DOMAIN src |->
        IF k \notin DOMAIN src THEN dst[k]
        ELSE IF k \in DOMAIN dst /\ IsMap(dst[k]) /\ IsMap(src[k])
             THEN GMap(mergeMap(dst[k].v, src[k].v))
             ELSE src[k]]

\* overrideJSON(jsonData, overrides): status is "ok" (a document is returned),
\* "err" (an error is returned) or "panic" (assignment to entry in nil map).
overrideJSON(data, ov) ==
    LET u == Unmarshal(data) IN
    IF u.err THEN [status |-> "err", doc |-> TNull]
    ELSE IF u.val = GNilMap
         THEN IF DOMAIN ov = {}
              THEN [status |-> "ok", doc |-> Encode(GNil)]
              ELSE [status |-> "panic", doc |-> TNull]
         ELSE LET merged == GMap(mergeMap(u.val.v, ov)) IN
              IF Marshalable(merged)
              THEN [status |-> "ok", doc |-> Encode(merged)]
              ELSE [status |-> "err", doc |-> TNull]

(***************************************************************************)
(* The inputs the patch engine is exercised on.                            *)
(***************************************************************************)
\* all maps from a subset of keys to values, key k drawing from vals[k]
MapsOver(keys, vals) ==
    UNION { { f \in [S -> UNION {vals[k] : k \in S}] :
                \A k \in S : f[k] \in vals[k] } : S \in SUBSET keys }

Nums == 0..MaxNum
\* 2^53 + 1 and 2^53 + 3: integers float64 cannot hold
BigNums == {<<F64ExactHi, 1>>, <<F64ExactHi, 3>>}

TextNums    == {TNum(Small(n)) : n \in Nums}
TextInner2  == {TObj(f) : f \in MapsOver({"c"}, [k \in {"c"} |-> TextNums])}
TextInner   == {TObj(f) : f \in MapsOver({"b", "c"},
                    [k \in {"b", "c"} |->
                        IF k = "b" THEN TextNums \cup TextInner2 ELSE TextNums])}
TextScalars == TextNums \cup {TNum(n) : n \in BigNums}
                 \cup {TStr("s"), TNull, TArr(<<TNum(Small(1))>>)}
TextObjects == {TObj(f) : f \in MapsOver({"a", "z"},
                    [k \in {"a", "z"} |->
                        IF k = "a" THEN TextScalars \cup TextInner
                        ELSE {TNum(Small(0)), TObj(<<>>)}])}
\* what is not a JSON object at the top level
TextNonObjects ==
    {TBad, TNull, TArr(<<>>), TArr(<<TNum(Small(1))>>), TNum(Small(1)), TStr("s")}
JsonInputs == TextObjects \cup TextNonObjects

GoInts     == {GInt(n) : n \in Nums}
GoInner2   == {GMap(f) : f \in MapsOver({"c"}, [k \in {"c"} |-> GoInts])}
GoInner    == {GMap(f) : f \in MapsOver({"b", "c"},
                    [k \in {"b", "c"} |->
                        IF k = "b" THEN GoInts \cup GoInner2 ELSE GoInts])}
GoScalars  == GoInts \cup {GStr("s"), GSlice(<<GInt(1)>>), GChan}
OverrideInputs ==
    MapsOver({"a", "z"},
        [k \in {"a", "z"} |->
            IF k = "a" THEN GoScalars \cup GoInner ELSE {GInt(1), GMap(<<>>)}])

InitPatch ==
    /\ jsonData \in JsonInputs
    /\ overrides \in OverrideInputs
    /\ patched = [status |-> "none", doc |-> TNull]

\* the call overrideJSON(jsonData, overrides) returns (or panics)
CallOverrideJSON ==
    /\ patched.status = "none"
    /\ patched' = overrideJSON(jsonData, overrides)
    /\ UNCHANGED <<jsonData, overrides>>

(***************************************************************************)
(* Reading a document by key path, for stating what a patch did.           *)
(***************************************************************************)
Absent == [t |-> "absent", v |-> 0]

\* the value at key path p of a Go value or of a JSON text, Absent if none
RECURSIVE At(_, _)
At(x, p) ==
    IF p = <<>> THEN x
    ELSE IF x.t \in {"map", "obj"} /\ Head(p) \in DOMAIN x.v
         THEN At(x.v[Head(p)], Tail(p))
         ELSE Absent

PatchKeys == {"a", "b", "c", "z"}
KeyPaths == UNION {[1..n -> PatchKeys] : n \in 1..3}
Prefixes(p) == {SubSeq(p, 1, n) : n \in 1..(Len(p) - 1)}

PatchReturned == patched.status # "none"
\* the original as overrideJSON parsed it, and the overrides, as Go values
ParsedOriginal == Decode(jsonData)
OverridesValue == GMap(overrides)
\* mergeMap recurses down to p: above p both sides hold mappings
MergeReaches(p) ==
    \A q \in Prefixes(p) :
        IsMap(At(ParsedOriginal, q)) /\ IsMap(At(OverridesValue, q))

ExampleDoc ==
    TObj([k \in {"a"} |->
        TObj([j \in {"b", "c"} |-> IF j = "b" THEN TNum(Small(0)) ELSE TNum(Small(2))])])
ExampleOverrides == [k \in {"a"} |-> GMap([j \in {"b"} |-> GInt(1)])]
ExampleResult ==
    TObj([k \in {"a"} |->
        TObj([j \in {"b", "c"} |-> IF j = "b" THEN TNum(Small(1)) ELSE TNum(Small(2))])])

\* C3: in a document overrideJSON returns, at every key path of the overrides
\* that the merge reaches: where the original and the overrides both hold a
\* mapping the result holds a mapping with the keys of both (merged by the same
\* rule below it), and in every other case (no such key in the original, or an
\* array or scalar on either side) the result holds the incoming value, whole.
\* Patching {"a": {"b": 0, "c": 2}} with {"a": {"b": 1}} gives
\* {"a": {"b": 1, "c": 2}}.
C3_MergeRule ==
    (PatchReturned /\ jsonData.t = "obj" /\ patched.status = "ok") =>
        /\ \A p \in KeyPaths :
              (At(OverridesValue, p) # Absent /\ MergeReaches(p)) =>
                  LET old == At(ParsedOriginal, p)
                      new == At(OverridesValue, p)
                      got == At(patched.doc, p)
                  IN  IF IsMap(old) /\ IsMap(new)
                      THEN /\ got.t = "obj"
                           /\ DOMAIN got.v = DOMAIN old.v \cup DOMAIN new.v
                      ELSE got = Encode(new)
        /\ (jsonData = ExampleDoc /\ overrides = ExampleOverrides) =>
              patched.doc = ExampleResult

\* the example of C3 has been patched: below the mapping "a" the scalar "b" was
\* replaced and the sibling "c" kept
C3_Witness ==
    /\ PatchReturned
    /\ jsonData = ExampleDoc
    /\ overrides = ExampleOverrides
    /\ patched = [status |-> "ok", doc |-> ExampleResult]

\* C4 (as claimed): overrideJSON returns an error, and neither a document nor
\* a crash, for every input that is not a JSON object at the top level, whatever
\* the overrides.
C4_NonObjectFails ==
    (PatchReturned /\ jsonData.t # "obj") => patched.status = "err"

\* C5 (as claimed): patching a JSON object with no overrides returns the same
\* key paths with the same values, and any patch leaves every key path of the
\* original that the overrides do not name at its original value.
C5_EmptyPatchIdentity ==
    (PatchReturned /\ jsonData.t = "obj") =>
        /\ DOMAIN overrides = {} =>
              patched = [status |-> "ok", doc |-> jsonData]
        /\ patched.status = "ok" =>
              \A p \in KeyPaths :
                  (/\ At(jsonData, p) # Absent
                   /\ At(OverridesValue, p) = Absent
                   /\ \A q \in Prefixes(p) : At(OverridesValue, q) # Absent
                                               => IsMap(At(OverridesValue, q)))
                      => At(patched.doc, p) = At(jsonData, p)

(***************************************************************************)
(* The artifact writer: output.WriteFile, output.WriteBatch and            *)
(* lighthouseKeystore.Encode.  A path is the sequence of its elements, a   *)
(* disk is a function from the paths of its files to their contents.       *)
(***************************************************************************)
\* filepath.Join(o.dst, dst)
Join(root, rel) == root \o rel

\* filepath.Ext of the names the model uses
Ext(path) ==
    IF path = <<>> THEN ""
    ELSE LET name == path[Len(path)] IN
         CASE name \in {"foo.json", "genesis.json", "l2-genesis.json", "rollup.json",
                        "voting-keystore.json"} -> ".json"
           [] name \in {"foo.yaml", "config.yaml", "boot_enr.yaml"} -> ".yaml"
           [] name \in {"foo.txt", "deploy_block.txt", "deposit_contract_block.txt",
                        "genesis_validators_root.txt", "deterministic_p2p_key.txt"} -> ".txt"
           [] name = "genesis.ssz" -> ".ssz"
           [] OTHER -> ""

\* The payload of an artifact: a literal text, or a value made from the
\* genesis time, the fork selection and (for JSON documents) a text tree.
Body(text, time, latest, doc) == [text |-> text, time |-> time, latest |-> latest, doc |-> doc]
Lit(s) == Body(s, 0, FALSE, TNull)

\* An artifact (the `data interface{}` argument) by its dynamic type:
\*   kind "bytes" ([]byte), "string", "func" (func() ([]byte, error)), or
\*   "value" (any other type), which may have the methods MarshalSSZ (ssz)
\*   and Encode (enc).  fails: the marshaller, encoder function or serializer
\*   the dispatch ends up calling returns an error.  keys: the private keys of
\*   a lighthouseKeystore.
Artifact(kind, ssz, enc, fails, body, keys) ==
    [kind |-> kind, ssz |-> ssz, enc |-> enc, fails |-> fails, body |-> body,
     keys |-> keys]
Bytes(b)      == Artifact("bytes", FALSE, FALSE, FALSE, b, <<>>)
Text(b)       == Artifact("string", FALSE, FALSE, FALSE, b, <<>>)
Deferred(b, fails) == Artifact("func", FALSE, FALSE, fails, b, <<>>)
Plain(b, fails)    == Artifact("value", FALSE, FALSE, fails, b, <<>>)
SszObject(b, fails) == Artifact("value", TRUE, FALSE, fails, b, <<>>)
Keystore(keys)     == Artifact("value", FALSE, TRUE, FALSE, Lit("keystore"), keys)

\* what a file holds: how its bytes were made, and from what
Content(how, body) == [how |-> how, of |-> body]
\* a file os.WriteFile created or truncated and then failed to fill
Truncated == Content("truncated", Lit(""))

Put(disk, path, c) ==
    [p \in DOMAIN disk \cup {path} |-> IF p = path THEN c ELSE disk[p]]

\* the I/O fault injected at a path: "none", "mkdir" (os.MkdirAll fails),
\* "open" (os.WriteFile cannot open) or "write" (os.WriteFile fails midway)
FaultAt(io, path) == IF path \in DOMAIN io THEN io[path] ELSE "none"

\* the tail of WriteFile: os.MkdirAll(filepath.Dir(dst)), os.WriteFile(dst, ..)
StoreFile(disk, path, c, io) ==
    CASE FaultAt(io, path) \in {"mkdir", "open"} -> [disk |-> disk, err |-> FaultAt(io, path)]
      [] FaultAt(io, path) = "write" -> [disk |-> Put(disk, path, Truncated), err |-> "write"]
      [] OTHER -> [disk |-> Put(disk, path, c), err |-> "nil"]

\* the keys of a batch in the order the range loop visits them: Go leaves the
\* order open, `order` (a sequence holding every key once) resolves it
VisitOrder(data, order) == SelectSeq(order, LAMBDA k : k \in DOMAIN data)

secret == "secret"

\* the two files lighthouseKeystore.Encode writes for one key
KeystoreFiles(key) ==
    LET ks  == <<"validators", key.pub, "voting-keystore.json">>
        sec == <<"secrets", key.pub>>
    IN  [p \in {ks, sec} |-> IF p = ks THEN Bytes(Lit(key.pub)) ELSE Text(Lit(secret))]

RECURSIVE WriteFile(_, _, _, _, _, _)
RECURSIVE WriteEach(_, _, _, _, _, _)
RECURSIVE EncodeKeys(_, _, _, _, _)

\* The dispatch of WriteFile with the encoder tested before the marshaller.
WriteFileEncoderFirst(dst0, rel, data, disk, io, order) ==
    LET dst == Join(dst0, rel) IN
    CASE data.kind = "bytes"  -> StoreFile(disk, dst, Content("verbatim", data.body), io)
      [] data.kind = "string" -> StoreFile(disk, dst, Content("verbatim", data.body), io)
      [] data.kind = "value" /\ data.enc -> EncodeKeys(data.keys, dst, disk, io, order)
      [] data.kind = "value" /\ data.ssz ->
            IF data.fails THEN [disk |-> disk, err |-> "marshal"]
            ELSE StoreFile(disk, dst, Content("ssz", data.body), io)
      [] data.kind = "func" ->
            IF data.fails THEN [disk |-> disk, err |-> "func"]
            ELSE StoreFile(disk, dst, Content("func", data.body), io)
      [] OTHER ->
            IF Ext(dst) = ".json"
            THEN IF data.fails THEN [disk |-> disk, err |-> "marshal"]
                 ELSE StoreFile(disk, dst, Content("json", data.body), io)
            ELSE IF Ext(dst) = ".yaml"
            THEN IF data.fails THEN [disk |-> disk, err |-> "marshal"]
                 ELSE StoreFile(disk, dst, Content("yaml", data.body), io)
            ELSE [disk |-> disk, err |-> "unsupported"]

\* (o *output).WriteFile(dst, data) on the output rooted at dst0: the disk
\* afterwards and the error returned ("nil" for none)
WriteFile(dst0, rel, data, disk, io, order) ==
    LET dst == Join(dst0, rel) IN
    CASE data.kind = "bytes"  -> StoreFile(disk, dst, Content("verbatim", data.body), io)
      [] data.kind = "string" -> StoreFile(disk, dst, Content("verbatim", data.body), io)
      [] data.kind = "value" /\ data.ssz ->
            IF data.fails THEN [disk |-> disk, err |-> "marshal"]
            ELSE StoreFile(disk, dst, Content("ssz", data.body), io)
      [] data.kind = "value" /\ data.enc -> EncodeKeys(data.keys, dst, disk, io, order)
      [] data.kind = "func" ->
            IF data.fails THEN [disk |-> disk, err |-> "func"]
            ELSE StoreFile(disk, dst, Content("func", data.body), io)
      [] OTHER ->
            IF Ext(dst) = ".json"
            THEN IF data.fails THEN [disk |-> disk, err |-> "marshal"]
                 ELSE StoreFile(disk, dst, Content("json", data.body), io)
            ELSE IF Ext(dst) = ".yaml"
            THEN IF data.fails THEN [disk |-> disk, err |-> "marshal"]
                 ELSE StoreFile(disk, dst, Content("yaml", data.body), io)
            ELSE [disk |-> disk, err |-> "unsupported"]

\* the loop of WriteBatch going on after an entry's write has failed
WriteEachKeepGoing(dst0, data, todo, disk, io, order) ==
    IF todo = <<>> THEN [disk |-> disk, err |-> "nil"]
    ELSE LET r    == WriteFile(dst0, Head(todo), data[Head(todo)], disk, io, order)
             rest == WriteEach(dst0, data, Tail(todo), r.disk, io, order)
         IN  IF r.err # "nil" THEN [disk |-> rest.disk, err |-> r.err] ELSE rest

\* the loop of WriteBatch over the keys still to visit
WriteEach(dst0, data, todo, disk, io, order) ==
    IF todo = <<>> THEN [disk |-> disk, err |-> "nil"]
    ELSE LET r == WriteFile(dst0, Head(todo), data[Head(todo)], disk, io, order) IN
         IF r.err # "nil" THEN r
         ELSE WriteEach(dst0, data, Tail(todo), r.disk, io, order)

\* a WriteBatch that undoes the writes of a batch that fails
WriteBatchAllOrNothing(dst0, data, disk, io, order) ==
    LET r == WriteEach(dst0, data, VisitOrder(data, order), disk, io, order) IN
    IF r.err # "nil" THEN [disk |-> disk, err |-> r.err] ELSE r

\* (o *output).WriteBatch(data)
WriteBatch(dst0, data, disk, io, order) ==
    WriteEach(dst0, data, VisitOrder(data, order), disk, io, order)

\* (l *lighthouseKeystore).Encode(o), o rooted at dst0: per key, encrypt and
\* write the keystore document and the secret in one batch
EncodeKeys(keys, dst0, disk, io, order) ==
    IF keys = <<>> THEN [disk |-> disk, err |-> "nil"]
    ELSE IF Head(keys).fails THEN [disk |-> disk, err |-> "encrypt"]
    ELSE LET r == WriteBatch(dst0, KeystoreFiles(Head(keys)), disk, io, order) IN
         IF r.err # "nil" THEN r
         ELSE EncodeKeys(Tail(keys), dst0, r.disk, io, order)

(***************************************************************************)
(* The calls the artifact writer is exercised on.                          *)
(***************************************************************************)
OutRoot == <<"out">>
EmptyDisk == <<>>

Orderings(S) ==
    {q \in [1..Cardinality(S) -> S] : \A i, j \in 1..Cardinality(S) : q[i] = q[j] => i = j}

PubKeyList == <<"0xpk1", "0xpk2", "0xpk3">>
PubKeys == {PubKeyList[i] : i \in DOMAIN PubKeyList}
Key(pub, fails) == [pub |-> pub, fails |-> fails]
\* the key lists of up to n keys, key i being 0xpk<i>
RECURSIVE KeyLists(_)
KeyLists(n) ==
    IF n = 0 THEN {<<>>}
    ELSE KeyLists(n - 1) \cup
         {Append(l, Key(PubKeyList[n], x)) :
             l \in {m \in KeyLists(n - 1) : Len(m) = n - 1}, x \in BOOLEAN}

KeystoreFile(i) == <<"validators", PubKeyList[i], "voting-keystore.json">>
SecretFile(i) == <<"secrets", PubKeyList[i]>>
\* the orders in which the two files of each key are visited: the keystore
\* document first, or the secret first
KeystoreOrders ==
    { [i \in 1..(2 * Len(PubKeyList)) |->
          IF (i % 2 = 1) = docFirst THEN KeystoreFile((i + 1) \div 2)
                                    ELSE SecretFile((i + 1) \div 2)] :
        docFirst \in BOOLEAN }

FilePaths == {<<"foo.txt">>, <<"foo.json">>, <<"foo.yaml">>, <<"data_validator">>}
FileArtifacts ==
    {Bytes(Lit("b")), Text(Lit("t"))}
    \cup {Deferred(Lit("f"), x) : x \in BOOLEAN}
    \cup {Plain(Lit("m"), x) : x \in BOOLEAN}
    \cup {SszObject(Lit("s"), x) : x \in BOOLEAN}
    \cup {Keystore(l) : l \in KeyLists(MaxKeys)}
    \* a type with both capabilities, MarshalSSZ and Encode
    \cup {Artifact("value", TRUE, TRUE, x, Lit("s"), <<Key("0xpk1", FALSE)>>) : x \in BOOLEAN}

\* no fault, or one fault at one path
FaultsOf(paths, kinds) ==
    {<<>>} \cup {[p \in {q} |-> k] : q \in paths, k \in kinds}
Faults(paths) == FaultsOf(paths, {"mkdir", "open", "write"})

\* a leftover file at the destination, or none
DisksBefore(paths) ==
    {EmptyDisk} \cup {[p \in {q} |-> Content("verbatim", Lit("old"))] : q \in paths}

FileRequestsAt(r) ==
    {[op |-> "file", rel |-> r, data |-> d, batch |-> <<>>, io |-> f, order |-> o,
      before |-> b] :
        d \in FileArtifacts,
        f \in Faults({Join(OutRoot, r), Join(OutRoot, r) \o <<"secrets", "0xpk1">>}),
        o \in KeystoreOrders,
        b \in DisksBefore({Join(OutRoot, r)})}
FileRequests == UNION {FileRequestsAt(r) : r \in FilePaths}

BatchPaths == {<<"foo.txt">>, <<"foo.json">>, <<"data_validator">>}
BatchArtifacts == {Text(Lit("t")), Plain(Lit("m"), FALSE), Keystore(<<Key("0xpk1", FALSE)>>)}
BatchRequests ==
    {[op |-> "batch", rel |-> <<>>, data |-> Text(Lit("t")), batch |-> m, io |-> f,
      order |-> o \o k, before |-> b] :
        m \in MapsOver(BatchPaths, [r \in BatchPaths |-> BatchArtifacts]),
        f \in Faults({Join(OutRoot, <<"foo.json">>)}),
        o \in Orderings(BatchPaths),
        k \in KeystoreOrders,
        b \in DisksBefore({Join(OutRoot, <<"foo.txt">>)})}

InitWrite ==
    /\ wReq \in FileRequests \cup BatchRequests
    /\ wDisk = wReq.before
    /\ wRes = "none"

\* the call o.WriteFile(rel, data) returns
CallWriteFile ==
    /\ wRes = "none"
    /\ wReq.op = "file"
    /\ LET r == WriteFile(OutRoot, wReq.rel, wReq.data, wDisk, wReq.io, wReq.order) IN
         /\ wDisk' = r.disk
         /\ wRes' = r.err
    /\ UNCHANGED wReq

\* the call o.WriteBatch(batch) returns
CallWriteBatch ==
    /\ wRes = "none"
    /\ wReq.op = "batch"
    /\ LET r == WriteBatch(OutRoot, wReq.batch, wDisk, wReq.io, wReq.order) IN
         /\ wDisk' = r.disk
         /\ wRes' = r.err
    /\ UNCHANGED wReq

(***************************************************************************)
(* ArtifactsBuilder.Build: the values it computes.                         *)
(***************************************************************************)
MinimumGenesisDelay == 10
\* validator keys derived (interop.DeterministicallyGenerateKeys(0, 100)),
\* scaled down
NumValidators == 2
\* the delays handed to GenesisDelay reach MinimumGenesisDelay +- DelaySpread
DelaySpread == 1
\* the clock reads NowBase .. NowBase + ClockSpread when Build runs
ClockSpread == 1
NowBase == 4096
\* the timestamp in the embedded L2 genesis template: a moment before any run
TemplateTime == 4000

\* hexutil.Uint64(n).String(): the hex digits of n, most significant first,
\* "0x0" for zero
RECURSIVE HexDigits(_)
HexDigits(n) == IF n < 16 THEN <<n>> ELSE Append(HexDigits(n \div 16), n % 16)

\* the number a sequence of hex digits stands for (math.HexOrDecimal64)
RECURSIVE HexValue(_)
HexValue(ds) ==
    IF ds = <<>> THEN 0
    ELSE 16 * HexValue(SubSeq(ds, 1, Len(ds) - 1)) + ds[Len(ds)]

\* the clamp at the head of Build without its effect
KeepDelay(d) == d

\* the delay Build goes on with: genesisDelay raised to MinimumGenesisDelay
EffectiveDelay(d) == IF d < MinimumGenesisDelay THEN MinimumGenesisDelay ELSE d

\* uint64(time.Now().Add(time.Duration(delay) * time.Second).Unix()), for
\* delays far below the range of time.Duration
GenesisTime(now, delay) == now + delay

\* a fork epoch of "0" whatever the fork selection
AlwaysLatestEpoch(applyLatest) == "0"

\* the fork epoch substituted for {{.LatestForkEpoch}} in config.yaml.tmpl
LatestForkEpoch(applyLatest) == IF applyLatest THEN "0" ELSE "18446744073709551615"

\* the uint64 epochs the configuration can hold: 0 and math.MaxUint64
EpochZero == [uint64 |-> "zero"]
EpochFar == [uint64 |-> "max"]
EpochInvalid == [uint64 |-> "invalid"]
\* params.UnmarshalConfig: the epoch read from the text of the template
ParseEpoch(text) ==
    CASE text = "0" -> EpochZero
      [] text = "18446744073709551615" -> EpochFar
      [] OTHER -> EpochInvalid
\* convert: fmt.Sprintf("%d", val.Field(i).Uint()) of a reflect.Uint64 field
FormatEpoch(epoch) ==
    CASE epoch = EpochZero -> "0"
      [] epoch = EpochFar -> "18446744073709551615"
      [] OTHER -> ""
\* the fork-epoch value in the text convert(config) returns: the value
\* substituted into the template, parsed into the active configuration and
\* printed again
ConvertedForkEpoch(applyLatest) == FormatEpoch(ParseEpoch(LatestForkEpoch(applyLatest)))

\* gen.ToBlock().Hash() of the L1 genesis: a function of the genesis time,
\* the active configuration and the allocations, which are fixed
L1Hash(genesisTime, applyLatest) ==
    [layer |-> "l1", time |-> genesisTime, epoch |-> LatestForkEpoch(applyLatest),
     rest |-> TNull]

\* utils/genesis.json, the embedded L2 genesis template
opGenesis ==
    TObj([k \in {"timestamp", "gasLimit", "config", "alloc"} |->
        CASE k = "timestamp" -> THex(HexDigits(TemplateTime))
          [] k = "gasLimit"  -> THex(HexDigits(30000))
          [] k = "config"    -> TObj([j \in {"chainId"} |-> TNum(Small(13))])
          [] OTHER           -> TObj(<<>>)])

\* json.Unmarshal(newOpGenesis, &opGenesisObj): the timestamp is read from its
\* hex string, the other fields are taken as they are
ParseGenesis(doc) ==
    IF doc.t = "obj" /\ "timestamp" \in DOMAIN doc.v /\ doc.v["timestamp"].t = "hexstr"
    THEN [err |-> FALSE,
          time |-> HexValue(doc.v["timestamp"].v),
          rest |-> TObj([k \in DOMAIN doc.v \ {"timestamp"} |-> doc.v[k]])]
    ELSE [err |-> TRUE, time |-> 0, rest |-> TNull]

\* opGenesisObj.ToBlock().Hash(): depends on every field, the timestamp included
L2Hash(genesis) ==
    [layer |-> "l2", time |-> genesis.time, epoch |-> "", rest |-> genesis.rest]

\* utils/rollup.json, the embedded rollup configuration template, carrying
\* the hashes of the template's own genesis blocks
opRollupConfig ==
    TObj([k \in {"genesis", "block_time", "l2_chain_id"} |->
        CASE k = "genesis" ->
                TObj([j \in {"l1", "l2", "l2_time", "system_config"} |->
                    CASE j = "l1" ->
                            TObj([i \in {"hash", "number"} |->
                                IF i = "hash" THEN THash(L1Hash(TemplateTime, FALSE))
                                ELSE TNum(Small(0))])
                      [] j = "l2" ->
                            TObj([i \in {"hash", "number"} |->
                                IF i = "hash" THEN THash(L2Hash(ParseGenesis(opGenesis)))
                                ELSE TNum(Small(0))])
                      [] j = "l2_time" -> TNum(Small(TemplateTime))
                      [] OTHER -> TObj([i \in {"gasLimit"} |-> TNum(Small(30000))])])
          [] k = "block_time" -> TNum(Small(2))
          [] OTHER -> TNum(Small(13))])

\* the overrides Build patches the L2 genesis template with
GenesisOverrides(opTimestamp) ==
    [k \in {"timestamp"} |-> GHex(HexDigits(opTimestamp))]

\* the overrides Build patches the rollup template with
RollupOverrides(opTimestamp, l1Hash, l2Hash) ==
    [k \in {"genesis", "chain_op_config"} |->
        IF k = "genesis"
        THEN GMap([j \in {"l2_time", "l1", "l2"} |->
                CASE j = "l2_time" -> GInt(opTimestamp)
                  [] j = "l1" -> GMap([i \in {"hash", "number"} |->
                                    IF i = "hash" THEN GHash(l1Hash) ELSE GInt(0)])
                  [] OTHER    -> GMap([i \in {"hash", "number"} |->
                                    IF i = "hash" THEN GHash(l2Hash) ELSE GInt(0)])])
        ELSE GMap([j \in {"eip1559Elasticity", "eip1559Denominator",
                          "eip1559DenominatorCanyon"} |->
                CASE j = "eip1559Elasticity" -> GInt(6)
                  [] j = "eip1559Denominator" -> GInt(50)
                  [] OTHER -> GInt(250)])]

(***************************************************************************)
(* ArtifactsBuilder: its setters and Build, step by step.                  *)
(***************************************************************************)
\* GetHomeDir(): $HOME/.playground
HomeDir == <<"home", ".playground">>
\* filepath.Join(homeDir, "devnet"), the default output
DefaultOutput == Join(HomeDir, <<"devnet">>)
GivenOutput == <<"out">>

defaultJWTToken == "defaultJWTToken"
defaultDiscoveryPrivKey == "a11ac89899cd86e36b6fb881ec1255b8a92a688790b7d950f8b7d8dd626671fb"

\* the validator keys interop.DeterministicallyGenerateKeys returns
ValidatorKeys(failing) ==
    [i \in 1..NumValidators |-> Key(PubKeyList[i], i = failing)]

ConfigYaml == <<"testnet", "config.yaml">>
GenesisSsz == <<"testnet", "genesis.ssz">>
GenesisJson == <<"genesis.json">>
DeployBlock == <<"testnet", "deploy_block.txt">>
DataValidator == <<"data_validator">>
\* the keys of the map handed to the first WriteBatch, as the source lists them
FirstBatchKeys ==
    << ConfigYaml, GenesisSsz, GenesisJson, <<"jwtsecret">>,
       <<"testnet", "boot_enr.yaml">>, DeployBlock,
       <<"testnet", "deposit_contract_block.txt">>,
       <<"testnet", "genesis_validators_root.txt">>, DataValidator,
       <<"deterministic_p2p_key.txt">> >>

\* the map handed to the first WriteBatch.  sszFails: state.MarshalSSZ returns
\* an error; encryptFails: the key (by index, 0 for none) whose encryption fails
FirstBatch(genesisTime, applyLatest, sszFails, encryptFails) ==
    [k \in {FirstBatchKeys[i] : i \in DOMAIN FirstBatchKeys} |->
        CASE k = ConfigYaml  -> Deferred(Body("config", 0, applyLatest,
                                             TStr(ConvertedForkEpoch(applyLatest))), FALSE)
          [] k = GenesisSsz  -> SszObject(Body("state", genesisTime, applyLatest, TNull), sszFails)
          [] k = GenesisJson -> Plain(Body("gen", genesisTime, applyLatest, TNull), FALSE)
          [] k = <<"jwtsecret">> -> Text(Lit(defaultJWTToken))
          [] k = <<"testnet", "boot_enr.yaml">> -> Text(Lit("[]"))
          [] k = DeployBlock -> Text(Lit("0"))
          [] k = <<"testnet", "deposit_contract_block.txt">> -> Text(Lit("0"))
          [] k = <<"testnet", "genesis_validators_root.txt">> -> Text(Lit("genesisValidatorsRoot"))
          [] k = DataValidator -> Keystore(ValidatorKeys(encryptFails))
          [] OTHER -> Text(Lit(defaultDiscoveryPrivKey))]

L2GenesisJson == <<"l2-genesis.json">>
RollupJson == <<"rollup.json">>

\* the hash taken from the template instead of the patched document
TemplateGenesisHash(newOpGenesis) == L2Hash(ParseGenesis(opGenesis))

\* opGenesisObj.ToBlock().Hash() of the re-parsed patched L2 genesis
PatchedGenesisHash(newOpGenesis) == L2Hash(ParseGenesis(newOpGenesis))

\* os.RemoveAll leaving everything in place
RemoveNothing(files) == files

\* out.Remove(""): os.RemoveAll of the output directory, when it succeeds
RemoveAll(files) == EmptyDisk

\* out.Exists(""): os.Stat of the output directory succeeds.  Only files are
\* tracked: a directory is there when it holds some
Exists(files) == files # EmptyDisk

\* what a failing os.RemoveAll may leave: everything, or any one file
Leftovers(files) ==
    {files} \cup {[p \in {q} |-> files[p]] : q \in DOMAIN files}

\* what an earlier run may have left in an output directory: nothing, or a
\* genesis of its own and the graph the orchestration layer wrote
StaleDisks(dir) ==
    { EmptyDisk,
      [p \in {Join(dir, GenesisJson), Join(dir, <<"graph.dot">>)} |->
          Content("verbatim", Lit("old"))] }

NoCtx ==
    [out |-> <<>>, existed |-> FALSE, requested |-> 0, now |-> 0, genesisTime |-> 0,
     blockHash |-> L1Hash(0, FALSE), newOpGenesis |-> TNull,
     opGenesisHash |-> L2Hash([time |-> 0, rest |-> TNull])]
NoResult ==
    [status |-> "none", stage |-> "", ctx |-> NoCtx, latest |-> FALSE,
     written |-> {}, failed |-> <<>>]

\* what Build returns: nil error ("ok") or the error of a stage ("err"), with
\* the entries it had written and the entry whose write failed
Returned(status, stage, ctx, written, failed) ==
    [status |-> status, stage |-> stage, ctx |-> ctx, latest |-> applyLatestL1Fork,
     written |-> written, failed |-> failed]

Delays ==
    {0, 5} \cup ((MinimumGenesisDelay - DelaySpread)..(MinimumGenesisDelay + DelaySpread))
Nows == NowBase..(NowBase + ClockSpread)

InitBuilder ==
    /\ outputDir = <<>>
    /\ applyLatestL1Fork = FALSE
    /\ genesisDelay = MinimumGenesisDelay

InitBuild ==
    /\ bPc = "idle"
    /\ bCtx = NoCtx
    /\ bRes = NoResult
    /\ tree = EmptyDisk
    /\ treeDir = <<>>

\* b.OutputDir(dir)
OutputDir ==
    /\ bPc = "idle"
    /\ \E dir \in {<<>>, GivenOutput} : outputDir' = dir
    /\ bRes' = NoResult
    /\ UNCHANGED <<applyLatestL1Fork, genesisDelay, bPc, bCtx, tree, treeDir>>

\* b.ApplyLatestL1Fork(flag)
ApplyLatestL1Fork ==
    /\ bPc = "idle"
    /\ \E flag \in BOOLEAN : applyLatestL1Fork' = flag
    /\ bRes' = NoResult
    /\ UNCHANGED <<outputDir, genesisDelay, bPc, bCtx, tree, treeDir>>

\* b.GenesisDelay(genesisDelaySeconds)
GenesisDelay ==
    /\ bPc = "idle"
    /\ \E d \in Delays : genesisDelay' = d
    /\ bRes' = NoResult
    /\ UNCHANGED <<outputDir, applyLatestL1Fork, bPc, bCtx, tree, treeDir>>

\* Build, to the clamp of the genesis delay: the home directory, the default
\* output, the removal of an existing output directory
BuildStart ==
    /\ bPc = "idle"
    /\ \E homeFails \in BOOLEAN, removeFails \in BOOLEAN :
        IF homeFails
        THEN /\ bRes' = Returned("err", "homedir", NoCtx, {}, <<>>)
             /\ UNCHANGED <<outputDir, genesisDelay, bPc, bCtx, tree, treeDir>>
        ELSE LET out == IF outputDir = <<>> THEN DefaultOutput ELSE outputDir IN
             \* the files of another directory are whatever an earlier run left
             \E found \in (IF out = treeDir THEN {tree} ELSE StaleDisks(out)) :
                /\ outputDir' = out
                /\ treeDir' = out
                /\ IF Exists(found) /\ removeFails
                   THEN /\ tree' \in Leftovers(found)
                        /\ bRes' = Returned("err", "remove", NoCtx, {}, <<>>)
                        /\ UNCHANGED <<genesisDelay, bPc, bCtx>>
                   ELSE /\ tree' = IF Exists(found) THEN RemoveAll(found) ELSE found
                        /\ genesisDelay' = EffectiveDelay(genesisDelay)
                        /\ bCtx' = [NoCtx EXCEPT !.out = out, !.existed = Exists(found),
                                                  !.requested = genesisDelay]
                        /\ bRes' = NoResult
                        /\ bPc' = "started"
    /\ UNCHANGED applyLatestL1Fork

\* the stages of Build between the clamp and the first batch that return on an
\* error of an external primitive
AssembleStages ==
    {"clConfig", "setActive", "privKey", "opState", "keys", "depositData", "premine"}

\* Build, from the fork epoch to the consensus genesis state: the genesis
\* time, the L1 genesis and its block, the validator keys, the beacon state
BuildAssemble ==
    /\ bPc = "started"
    /\ \E now \in Nows, failing \in AssembleStages \cup {"none"} :
        IF failing # "none"
        THEN /\ bRes' = Returned("err", failing, bCtx, {}, <<>>)
             /\ bPc' = "idle"
             /\ bCtx' = NoCtx
        ELSE /\ bCtx' = [bCtx EXCEPT
                            !.now = now,
                            !.genesisTime = GenesisTime(now, genesisDelay),
                            !.blockHash = L1Hash(GenesisTime(now, genesisDelay),
                                                 applyLatestL1Fork)]
             /\ bPc' = "assembled"
             /\ UNCHANGED bRes
    /\ UNCHANGED <<varsBuilder, tree, treeDir>>

\* the orders in which the first batch is visited: as listed or reversed, the
\* files of each key either way
Reverse(q) == [i \in 1..Len(q) |-> q[Len(q) + 1 - i]]
EmitOrders ==
    {o \o k : o \in {FirstBatchKeys, Reverse(FirstBatchKeys)}, k \in KeystoreOrders}

\* the files the first batch writes under out
FirstBatchFiles(out) ==
    ({Join(out, FirstBatchKeys[i]) : i \in DOMAIN FirstBatchKeys} \ {Join(out, DataValidator)})
    \cup UNION {{Join(out, DataValidator) \o KeystoreFile(i),
                 Join(out, DataValidator) \o SecretFile(i)} : i \in 1..NumValidators}

\* what may go wrong in the first batch: nothing, an I/O fault at one file,
\* state.MarshalSSZ, or the encryption of one key
EmitFaults(out) ==
    {[io |-> f, ssz |-> FALSE, encrypt |-> 0] :
        f \in FaultsOf(FirstBatchFiles(out), {"mkdir", "write"})}
    \cup {[io |-> <<>>, ssz |-> TRUE, encrypt |-> 0]}
    \cup {[io |-> <<>>, ssz |-> FALSE, encrypt |-> i] : i \in 1..NumValidators}

\* the entries a batch visits before the first one whose write fails, and
\* that entry (<<>> when none fails)
FailingIndex(dst0, data, io, order) ==
    LET visit == VisitOrder(data, order)
        bad == {i \in 1..Len(visit) :
                   WriteFile(dst0, visit[i], data[visit[i]], EmptyDisk, io, order).err # "nil"}
    IN  IF bad = {} THEN 0 ELSE CHOOSE i \in bad : \A j \in bad : i <= j
WrittenBefore(dst0, data, io, order) ==
    LET visit == VisitOrder(data, order)
        i == FailingIndex(dst0, data, io, order)
    IN  IF i = 0 THEN DOMAIN data ELSE {visit[j] : j \in 1..(i - 1)}
FailedEntry(dst0, data, io, order) ==
    LET i == FailingIndex(dst0, data, io, order) IN
    IF i = 0 THEN <<>> ELSE VisitOrder(data, order)[i]

\* Build, the first out.WriteBatch
BuildEmit ==
    /\ bPc = "assembled"
    /\ \E order \in EmitOrders, fault \in EmitFaults(bCtx.out) :
        LET data == FirstBatch(bCtx.genesisTime, applyLatestL1Fork, fault.ssz, fault.encrypt)
            r == WriteBatch(bCtx.out, data, tree, fault.io, order)
        IN  /\ tree' = r.disk
            /\ IF r.err # "nil"
               THEN /\ bRes' = Returned("err", "emit", bCtx,
                                    WrittenBefore(bCtx.out, data, fault.io, order),
                                    FailedEntry(bCtx.out, data, fault.io, order))
                    /\ bPc' = "idle"
                    /\ bCtx' = NoCtx
               ELSE /\ bPc' = "emitted"
                    /\ UNCHANGED <<bRes, bCtx>>
    /\ UNCHANGED <<varsBuilder, treeDir>>

AllFirstBatch == {FirstBatchKeys[i] : i \in DOMAIN FirstBatchKeys}

\* Build, the L2 genesis: the template patched with the timestamp two seconds
\* after the genesis time, re-parsed, and its block hashed
BuildDeriveL2 ==
    /\ bPc = "emitted"
    /\ LET opTimestamp == bCtx.genesisTime + 2
           newOpGenesis == overrideJSON(opGenesis, GenesisOverrides(opTimestamp))
       IN  IF newOpGenesis.status # "ok"
           THEN /\ bRes' = Returned("err", "patchGenesis", bCtx, AllFirstBatch, <<>>)
                /\ bPc' = "idle"
                /\ bCtx' = NoCtx
           ELSE IF ParseGenesis(newOpGenesis.doc).err
           THEN /\ bRes' = Returned("err", "unmarshalGenesis", bCtx, AllFirstBatch, <<>>)
                /\ bPc' = "idle"
                /\ bCtx' = NoCtx
           ELSE /\ bCtx' = [bCtx EXCEPT
                               !.newOpGenesis = newOpGenesis.doc,
                               !.opGenesisHash = PatchedGenesisHash(newOpGenesis.doc)]
                /\ bPc' = "derived"
                /\ UNCHANGED bRes
    /\ UNCHANGED <<varsBuilder, tree, treeDir>>

\* the bytes of a JSON document, as an artifact
JsonBytes(doc) == Bytes(Body("", 0, FALSE, doc))

\* Build, the rollup configuration: the template patched with the L2 time and
\* the two genesis hashes, then l2-genesis.json and rollup.json written
BuildRollup ==
    /\ bPc = "derived"
    /\ \E io \in FaultsOf({Join(bCtx.out, L2GenesisJson), Join(bCtx.out, RollupJson)},
                          {"mkdir", "write"}) :
        LET opTimestamp == bCtx.genesisTime + 2
            newOpRollup == overrideJSON(opRollupConfig,
                               RollupOverrides(opTimestamp, bCtx.blockHash, bCtx.opGenesisHash))
            w1 == WriteFile(bCtx.out, L2GenesisJson, JsonBytes(bCtx.newOpGenesis), tree, io, <<>>)
            w2 == WriteFile(bCtx.out, RollupJson, JsonBytes(newOpRollup.doc), w1.disk, io, <<>>)
        IN  IF newOpRollup.status # "ok"
            THEN /\ bRes' = Returned("err", "patchRollup", bCtx, AllFirstBatch, <<>>)
                 /\ UNCHANGED tree
            ELSE IF w1.err # "nil"
            THEN /\ bRes' = Returned("err", "writeL2Genesis", bCtx, AllFirstBatch, L2GenesisJson)
                 /\ tree' = w1.disk
            ELSE IF w2.err # "nil"
            THEN /\ bRes' = Returned("err", "writeRollup", bCtx,
                                     AllFirstBatch \cup {L2GenesisJson}, RollupJson)
                 /\ tree' = w2.disk
            ELSE /\ bRes' = Returned("ok", "", bCtx,
                                     AllFirstBatch \cup {L2GenesisJson, RollupJson}, <<>>)
                 /\ tree' = w2.disk
    /\ bPc' = "idle"
    /\ bCtx' = NoCtx
    /\ UNCHANGED <<varsBuilder, treeDir>>

(***************************************************************************)
(* Claims about the artifact writer.                                       *)
(***************************************************************************)
IsUnder(p, dir) == Len(p) >= Len(dir) /\ SubSeq(p, 1, Len(dir)) = dir
\* the disk, restricted to the files at or under dir
Under(disk, dir) == [p \in {q \in DOMAIN disk : IsUnder(q, dir)} |-> disk[p]]

WriteFileReturned == wReq.op = "file" /\ wRes # "none"
WriteDst == Join(OutRoot, wReq.rel)
\* the result of writing content c at the destination, faults included
Stored(c) == StoreFile(wReq.before, WriteDst, c, wReq.io)
WroteAs(c) == wDisk = Stored(c).disk /\ wRes = Stored(c).err
FailedWith(e) == wDisk = wReq.before /\ wRes = e

\* C6: WriteFile serializes by the first rule that matches, in this order:
\* raw bytes verbatim; text as its bytes; an object with MarshalSSZ encoded and
\* written; a nested encoder handed a writer rooted at the destination, the
\* parent writing nothing at that path; a deferred function invoked and its
\* result written; otherwise by extension, .json as JSON, .yaml as YAML, any
\* other extension an unsupported-format error.  An artifact matching several
\* rules is handled by the earliest.
C6_DispatchOrder ==
    WriteFileReturned =>
        LET d == wReq.data IN
        /\ d.kind \in {"bytes", "string"} => WroteAs(Content("verbatim", d.body))
        /\ (d.kind = "value" /\ d.ssz) =>
              IF d.fails THEN FailedWith("marshal") ELSE WroteAs(Content("ssz", d.body))
        /\ (d.kind = "value" /\ ~d.ssz /\ d.enc) =>
              /\ Under(wDisk, WriteDst) # Under(wReq.before, WriteDst) =>
                    \A p \in DOMAIN wDisk :
                        IsUnder(p, WriteDst) /\ p # WriteDst
                            => p[Len(WriteDst) + 1] \in {"validators", "secrets"}
              /\ WriteDst \in DOMAIN wDisk =>
                    WriteDst \in DOMAIN wReq.before /\ wDisk[WriteDst] = wReq.before[WriteDst]
              /\ wRes = "nil" =>
                    \A i \in DOMAIN d.keys :
                        /\ WriteDst \o <<"validators", d.keys[i].pub, "voting-keystore.json">>
                              \in DOMAIN wDisk
                        /\ WriteDst \o <<"secrets", d.keys[i].pub>> \in DOMAIN wDisk
        /\ d.kind = "func" =>
              IF d.fails THEN FailedWith("func") ELSE WroteAs(Content("func", d.body))
        /\ (d.kind = "value" /\ ~d.ssz /\ ~d.enc) =>
              CASE wReq.rel = <<"foo.json">> ->
                      IF d.fails THEN FailedWith("marshal")
                      ELSE WroteAs(Content("json", d.body))
                [] wReq.rel = <<"foo.yaml">> ->
                      IF d.fails THEN FailedWith("marshal")
                      ELSE WroteAs(Content("yaml", d.body))
                [] OTHER -> FailedWith("unsupported")

\* an artifact with both MarshalSSZ and Encode has been written: by the
\* marshaller, and nothing under the destination
C6_Witness ==
    /\ WriteFileReturned
    /\ wReq.data.kind = "value" /\ wReq.data.ssz /\ wReq.data.enc
    /\ wRes = "nil"
    /\ wDisk = Put(wReq.before, WriteDst, Content("ssz", wReq.data.body))

\* a plain mapping written as foo.txt has failed for its extension
C6_WitnessUnsupported ==
    /\ WriteFileReturned
    /\ wReq.data = Plain(Lit("m"), FALSE)
    /\ wReq.rel = <<"foo.txt">>
    /\ wRes = "unsupported"

WriteBatchReturned == wReq.op = "batch" /\ wRes # "none"
\* the entries in the order the batch visited them
Visited == VisitOrder(wReq.batch, wReq.order)
\* the error of writing entry k alone (it does not depend on the disk)
EntryError(k) ==
    WriteFile(OutRoot, k, wReq.batch[k], EmptyDisk, wReq.io, wReq.order).err
\* entry k is on disk as its write leaves it: writing it again changes nothing
EntryWritten(k) ==
    WriteFile(OutRoot, k, wReq.batch[k], wDisk, wReq.io, wReq.order).disk = wDisk
\* nothing at or under entry k's path has changed since before the batch
EntryUntouched(k) ==
    Under(wDisk, Join(OutRoot, k)) = Under(wReq.before, Join(OutRoot, k))
FirstFailure ==
    CHOOSE i \in 1..Len(Visited) :
        /\ EntryError(Visited[i]) # "nil"
        /\ \A j \in 1..(i - 1) : EntryError(Visited[j]) = "nil"

\* C7: whatever the order of the visit, WriteBatch returns the error of the
\* first entry whose write fails, the entries visited before it are written and
\* no entry after it is; it returns success only if every entry was written.
C7_FirstErrorAborts ==
    WriteBatchReturned =>
        IF \A k \in DOMAIN wReq.batch : EntryError(k) = "nil"
        THEN /\ wRes = "nil"
             /\ \A k \in DOMAIN wReq.batch : EntryWritten(k)
        ELSE /\ wRes = EntryError(Visited[FirstFailure])
             /\ \A j \in 1..(FirstFailure - 1) : EntryWritten(Visited[j])
             /\ \A j \in (FirstFailure + 1)..Len(Visited) : EntryUntouched(Visited[j])

\* a batch of three has failed at the second entry it visited: the first is
\* written, the third is not
C7_Witness ==
    /\ WriteBatchReturned
    /\ Len(Visited) = 3
    /\ EntryError(Visited[1]) = "nil"
    /\ EntryError(Visited[2]) # "nil"
    /\ EntryError(Visited[3]) = "nil"
    /\ wRes = EntryError(Visited[2])
    /\ Under(wDisk, Join(OutRoot, Visited[1])) # Under(wReq.before, Join(OutRoot, Visited[1]))
    /\ EntryUntouched(Visited[3])

(***************************************************************************)
(* Claims about Build.                                                     *)
(***************************************************************************)
BuildSucceeded == bRes.status = "ok"
BuildFailed == bRes.status = "err"
\* the documents a finished Build left in rollup.json and l2-genesis.json
RollupWritten == tree[Join(bRes.ctx.out, RollupJson)].of.doc
L2GenesisWritten == tree[Join(bRes.ctx.out, L2GenesisJson)].of.doc

\* C1: in the rollup configuration of a successful Build, genesis.l2.hash is
\* the hash recomputed from the patched L2 genesis (the template with its
\* timestamp replaced by genesisTime + 2, the document in l2-genesis.json) and
\* not the hash of the unpatched template, and genesis.l1.hash is the hash of
\* the L1 genesis block of this Build; both hashes exist before the rollup
\* configuration is patched.
C1_RollupHashes ==
    /\ bPc = "derived" =>
          /\ bCtx.blockHash = L1Hash(bCtx.genesisTime, applyLatestL1Fork)
          /\ bCtx.opGenesisHash = L2Hash(ParseGenesis(bCtx.newOpGenesis))
          /\ Join(bCtx.out, RollupJson) \notin DOMAIN tree
    /\ BuildSucceeded =>
          /\ L2GenesisWritten = bRes.ctx.newOpGenesis
          /\ L2GenesisWritten =
                TObj([opGenesis.v EXCEPT
                        !["timestamp"] = THex(HexDigits(bRes.ctx.genesisTime + 2))])
          /\ ParseGenesis(L2GenesisWritten).time = bRes.ctx.genesisTime + 2
          /\ At(RollupWritten, <<"genesis", "l2", "hash">>)
                = THash(L2Hash(ParseGenesis(L2GenesisWritten)))
          /\ At(RollupWritten, <<"genesis", "l2", "hash">>)
                # THash(L2Hash(ParseGenesis(opGenesis)))
          /\ At(RollupWritten, <<"genesis", "l1", "hash">>)
                = THash(L1Hash(bRes.ctx.genesisTime, bRes.latest))
          /\ bRes.ctx.blockHash = L1Hash(bRes.ctx.genesisTime, bRes.latest)

\* a Build has succeeded and its rollup.json carries a recomputed L2 hash
C1_Witness ==
    /\ BuildSucceeded
    /\ At(RollupWritten, <<"genesis", "l2", "hash">>) = THash(bRes.ctx.opGenesisHash)
    /\ bRes.ctx.opGenesisHash.time = bRes.ctx.genesisTime + 2

Building == bPc # "idle"
TimeFixed == bPc \in {"assembled", "emitted", "derived"}

\* C2: for a requested delay d, the delay Build computes genesisTime = now +
\* delay with is MinimumGenesisDelay when d < MinimumGenesisDelay, d otherwise.
C2_EffectiveDelay ==
    /\ Building =>
          genesisDelay = IF bCtx.requested < 10 THEN 10 ELSE bCtx.requested
    /\ TimeFixed =>
          bCtx.genesisTime = bCtx.now + (IF bCtx.requested < 10 THEN 10 ELSE bCtx.requested)
    /\ BuildSucceeded =>
          bRes.ctx.genesisTime =
              bRes.ctx.now + (IF bRes.ctx.requested < 10 THEN 10 ELSE bRes.ctx.requested)

\* Build has fixed the genesis time from a requested delay of 5
C2_Witness ==
    /\ TimeFixed
    /\ bCtx.requested = 5
    /\ bCtx.genesisTime = bCtx.now + 10

\* every artifact of the Build that returned, by its path under the output
BuildArtifact(k) ==
    CASE k = L2GenesisJson -> JsonBytes(bRes.ctx.newOpGenesis)
      [] k = RollupJson ->
            JsonBytes(overrideJSON(opRollupConfig,
                RollupOverrides(bRes.ctx.genesisTime + 2, bRes.ctx.blockHash,
                                bRes.ctx.opGenesisHash)).doc)
      [] OTHER -> FirstBatch(bRes.ctx.genesisTime, bRes.latest, FALSE, 0)[k]
\* entry k is on disk as its write leaves it: writing it again changes nothing
OnDisk(k) ==
    WriteFile(bRes.ctx.out, k, BuildArtifact(k), tree, <<>>, FirstBatchKeys \o
        CHOOSE o \in KeystoreOrders : TRUE).disk = tree
\* the files of the first batch, when nothing fails
FirstBatchTree ==
    WriteBatch(treeDir, FirstBatch(bRes.ctx.genesisTime, bRes.latest, FALSE, 0),
               EmptyDisk, <<>>, FirstBatchKeys \o CHOOSE o \in KeystoreOrders : TRUE).disk

\* C8 (as claimed): when Build fails, the output directory holds exactly the
\* files of the write batches that completed before the failure, no others.
C8_OnlyCompletedBatches ==
    BuildFailed =>
        tree = IF AllFirstBatch \subseteq bRes.written THEN FirstBatchTree ELSE EmptyDisk

\* C8 (amended): when Build fails after the output root was cleaned, nothing
\* is rolled back: every entry written before the failure is on disk, those
\* of the batch that failed midway included, and every file on disk belongs
\* to one of them or to the entry whose write failed.
C8_NoRollback ==
    (BuildFailed /\ bRes.stage \notin {"homedir", "remove"}) =>
        /\ \A k \in bRes.written : OnDisk(k)
        /\ \A p \in DOMAIN tree :
              \E k \in bRes.written \cup {bRes.failed} :
                  k # <<>> /\ IsUnder(p, Join(bRes.ctx.out, k))

\* the first batch has failed midway: entries it had written are on disk
C8_Witness ==
    /\ BuildFailed
    /\ bRes.stage = "emit"
    /\ bRes.written # {}
    /\ ~(AllFirstBatch \subseteq bRes.written)
    /\ \E k \in bRes.written : Join(bRes.ctx.out, k) \in DOMAIN tree

\* C9: Build removes an existing output root with all its contents before it
\* writes any artifact, so after a successful Build the root holds the files of
\* that Build and nothing left over from earlier runs.
C9_CleanStart ==
    /\ bPc \in {"started", "assembled"} => tree = EmptyDisk
    /\ BuildSucceeded =>
          /\ DOMAIN tree = FirstBatchFiles(bRes.ctx.out)
                \cup {Join(bRes.ctx.out, L2GenesisJson), Join(bRes.ctx.out, RollupJson)}
          /\ \A k \in bRes.written : OnDisk(k)
          /\ tree[Join(bRes.ctx.out, GenesisJson)]
                = Content("json", Body("gen", bRes.ctx.genesisTime, bRes.latest, TNull))

\* a Build has succeeded on an output root that held files when it started
C9_Witness ==
    /\ BuildSucceeded
    /\ bRes.ctx.existed
    /\ Join(bRes.ctx.out, <<"graph.dot">>) \notin DOMAIN tree

\* C11 (as claimed): on the builder, genesisDelay >= MinimumGenesisDelay in
\* every state after NewArtifactsBuilder, whatever calls of OutputDir,
\* ApplyLatestL1Fork, GenesisDelay and Build have been made.
C11_DelayAtLeastMinimum == genesisDelay >= MinimumGenesisDelay

(***************************************************************************)
(* LogOutput: callers (one per service) ask the same output for their log  *)
(* file, each from its own goroutine.  A call is modelled step by step:    *)
(* o.lock.Lock(), os.MkdirAll, os.Create, and the deferred o.lock.Unlock() *)
(* that runs on return.                                                    *)
(***************************************************************************)
MaxLogCalls == 2
Services == {"el", "beacon"}
Unlocked == "unlocked"

\* a mutex that lets every caller in
MutexIgnored(l) == TRUE

\* sync.Mutex: Lock returns only when no one holds the mutex
MutexFree(l) == l = Unlocked

InitLog ==
    /\ lock = Unlocked
    /\ logPc = [c \in Services |-> "idle"]
    /\ logCalls = [c \in Services |-> 0]
    /\ logRet = [c \in Services |-> "none"]
    /\ logs = [dir |-> FALSE, files |-> {}]

\* a service calls o.LogOutput(name) and reaches o.lock.Lock()
LogCall(c) ==
    /\ logPc[c] = "idle"
    /\ logCalls[c] < MaxLogCalls
    /\ logPc' = [logPc EXCEPT ![c] = "lock"]
    /\ logCalls' = [logCalls EXCEPT ![c] = @ + 1]
    /\ UNCHANGED <<lock, logRet, logs>>

\* o.lock.Lock() returns; defer o.lock.Unlock() is registered
LogLock(c) ==
    /\ logPc[c] = "lock"
    /\ MutexFree(lock)
    /\ lock' = c
    /\ logPc' = [logPc EXCEPT ![c] = "mkdir"]
    /\ UNCHANGED <<logCalls, logRet, logs>>

\* os.MkdirAll(filepath.Dir(path), 0700): on an error, return nil, err
LogMkdir(c) ==
    /\ logPc[c] = "mkdir"
    /\ \E fails \in BOOLEAN :
          IF fails
          THEN /\ logRet' = [logRet EXCEPT ![c] = "err"]
               /\ logPc' = [logPc EXCEPT ![c] = "unlock"]
               /\ UNCHANGED logs
          ELSE /\ logs' = [logs EXCEPT !.dir = TRUE]
               /\ logPc' = [logPc EXCEPT ![c] = "create"]
               /\ UNCHANGED logRet
    /\ UNCHANGED <<lock, logCalls>>

\* os.Create(path): return nil, err or logOutput, nil
LogCreate(c) ==
    /\ logPc[c] = "create"
    /\ \E fails \in BOOLEAN :
          IF fails
          THEN /\ logRet' = [logRet EXCEPT ![c] = "err"]
               /\ UNCHANGED logs
          ELSE /\ logRet' = [logRet EXCEPT ![c] = "file"]
               /\ logs' = [logs EXCEPT !.files = @ \cup {c}]
    /\ logPc' = [logPc EXCEPT ![c] = "unlock"]
    /\ UNCHANGED <<lock, logCalls>>

\* the deferred o.lock.Unlock() runs and LogOutput returns
LogUnlock(c) ==
    /\ logPc[c] = "unlock"
    /\ lock' = Unlocked
    /\ logPc' = [logPc EXCEPT ![c] = "idle"]
    /\ UNCHANGED <<logCalls, logRet, logs>>

\* the callers inside the create-logs-directory-and-create-file section
InSection == {c \in Services : logPc[c] \in {"mkdir", "create"}}
\* the callers between Lock returning and the deferred Unlock
Holding == {c \in Services : logPc[c] \in {"mkdir", "create", "unlock"}}
Waiting == {c \in Services : logPc[c] = "lock"}
InLogOutput(c) == logPc[c] # "idle"

LogSerialized ==
    /\ Cardinality(InSection) <= 1
    /\ Cardinality(Holding) <= 1
    /\ \A c \in Services : (c \in Holding) <=> (lock = c)
    /\ (Holding = {}) <=> (lock = Unlocked)

\* C10: at most one caller at a time is inside the section of LogOutput that
\* creates the logs directory and the file; a caller holds the mutex exactly
\* from Lock to the deferred Unlock, so none holds it after it returned, with
\* a file or with an error; and every caller that has called LogOutput
\* returns.
C10_LogOutputSerialized ==
    /\ []LogSerialized
    /\ \A c \in Services : InLogOutput(c) ~> ~InLogOutput(c)

\* one caller is creating its file while the other, whose earlier call
\* returned an error, waits for the mutex
C10_Witness ==
    \E c \in Services, d \in Services :
        /\ c # d
        /\ logPc[c] = "create"
        /\ logPc[d] = "lock"
        /\ logRet[d] = "err"
        /\ lock = c

(***************************************************************************)
(* runIt (main.go): the builder of the recipe is given the output and      *)
(* genesis-delay flags, Build runs, and the graph of the services is       *)
(* written into the output of the Build.                                   *)
(***************************************************************************)
GraphDot == <<"graph.dot">>
\* svcManager.GenerateDotGraph(), a string
DotGraph == Text(Lit("dotGraph"))

InitRun == runPc = "start"

\* builder := recipe.Artifacts(); builder.OutputDir(outputFlag);
\* builder.GenesisDelay(genesisDelayFlag).  The recipe decides the fork.
RunItConfigure ==
    /\ runPc = "start"
    /\ \E outputFlag \in {<<>>, GivenOutput}, genesisDelayFlag \in Delays,
          latest \in BOOLEAN :
          /\ outputDir' = outputFlag
          /\ genesisDelay' = genesisDelayFlag
          /\ applyLatestL1Fork' = latest
    /\ runPc' = "build"
    /\ UNCHANGED varsBuild

\* artifacts, err := builder.Build(): Build is entered, once
RunItBuild == runPc = "build" /\ bRes.status = "none" /\ BuildStart

\* Build has returned: runIt returns its error, or goes on
RunItBuilt ==
    /\ runPc = "build"
    /\ bPc = "idle"
    /\ bRes.status # "none"
    /\ runPc' = IF bRes.status = "ok" THEN "built" ELSE "returned"
    /\ UNCHANGED <<varsBuilder, varsBuild>>

\* recipe.Apply, svcManager.Validate and artifacts.Out.WriteFile("graph.dot",
\* dotGraph): runIt returns when the manifest is invalid or the write fails
RunItGraph ==
    /\ runPc = "built"
    /\ \E invalid \in BOOLEAN,
          io \in FaultsOf({Join(treeDir, GraphDot)}, {"mkdir", "write"}) :
          LET w == WriteFile(treeDir, GraphDot, DotGraph, tree, io, <<>>) IN
          IF invalid
          THEN runPc' = "returned" /\ UNCHANGED tree
          ELSE /\ tree' = w.disk
               /\ runPc' = IF w.err = "nil" THEN "graphed" ELSE "returned"
    /\ UNCHANGED <<varsBuilder, bPc, bCtx, bRes, treeDir>>

\* the layout of section 6 of the specification, for the validator keys of
\* the model
LayoutOfBuild ==
    { <<"testnet", "config.yaml">>, <<"testnet", "genesis.ssz">>, <<"genesis.json">>,
      <<"jwtsecret">>, <<"testnet", "boot_enr.yaml">>, <<"testnet", "deploy_block.txt">>,
      <<"testnet", "deposit_contract_block.txt">>,
      <<"testnet", "genesis_validators_root.txt">>,
      <<"deterministic_p2p_key.txt">>, <<"l2-genesis.json">>, <<"rollup.json">> }
    \cup {<<"data_validator", "validators", PubKeyList[i], "voting-keystore.json">> :
             i \in 1..NumValidators}
    \cup {<<"data_validator", "secrets", PubKeyList[i]>> : i \in 1..NumValidators}
Layout == LayoutOfBuild \cup {<<"graph.dot">>}

\* the run of the end-to-end case: genesis delay 5, the legacy fork, and an
\* output directory that did not exist
EndToEndCase ==
    /\ bRes.status = "ok"
    /\ bRes.ctx.requested = 5
    /\ ~bRes.latest
    /\ ~bRes.ctx.existed
InOutput(rel) == Join(bRes.ctx.out, rel)

\* C12: a run with genesisDelay = 5 and applyLatestL1Fork = false on a fresh
\* directory leaves every path of the layout of section 6: those of Build once
\* Build has returned, graph.dot as well once runIt has written it; there
\* testnet/deploy_block.txt holds exactly "0", written as it is, and the
\* fork-epoch value in testnet/config.yaml is 18446744073709551615.
C12_EndToEndLayout ==
    (EndToEndCase /\ runPc \in {"built", "graphed", "returned"}) =>
        /\ \A rel \in LayoutOfBuild : InOutput(rel) \in DOMAIN tree
        /\ \A rel \in LayoutOfBuild : tree[InOutput(rel)] # Truncated
        /\ tree[InOutput(<<"testnet", "deploy_block.txt">>)] = Content("verbatim", Lit("0"))
        /\ tree[InOutput(<<"testnet", "config.yaml">>)].how = "func"
        /\ tree[InOutput(<<"testnet", "config.yaml">>)].of.doc = TStr("18446744073709551615")
        /\ runPc = "graphed" =>
              /\ \A rel \in Layout : InOutput(rel) \in DOMAIN tree
              /\ tree[InOutput(<<"graph.dot">>)] = Content("verbatim", Lit("dotGraph"))

\* the end-to-end run has written graph.dot after its Build
C12_Witness ==
    /\ EndToEndCase
    /\ runPc = "graphed"
    /\ genesisDelay = MinimumGenesisDelay
    /\ InOutput(<<"graph.dot">>) \in DOMAIN tree

vars == <<varsPatch, varsWrite, varsBuilder, varsBuild, varsLog, varsRun>>

(***************************************************************************)
(* One specification per component; the other components stay idle.        *)
(***************************************************************************)
IdlePatch ==
    /\ jsonData = TBad
    /\ overrides = <<>>
    /\ patched = [status |-> "none", doc |-> TNull]

IdleWrite ==
    /\ wReq = [op |-> "idle"]
    /\ wDisk = EmptyDisk
    /\ wRes = "none"

NextPatch == CallOverrideJSON /\ UNCHANGED <<varsWrite, varsBuilder, varsBuild, varsLog, varsRun>>

StartPatch == InitPatch /\ IdleWrite /\ InitBuilder /\ InitBuild /\ InitLog /\ InitRun

SpecPatch == StartPatch /\ [][NextPatch]_vars

NextWrite ==
    \/ CallWriteFile /\ UNCHANGED <<varsPatch, varsBuilder, varsBuild, varsLog, varsRun>>
    \/ CallWriteBatch /\ UNCHANGED <<varsPatch, varsBuilder, varsBuild, varsLog, varsRun>>

StartWrite == InitWrite /\ IdlePatch /\ InitBuilder /\ InitBuild /\ InitLog /\ InitRun

SpecWrite == StartWrite /\ [][NextWrite]_vars

NextBuild ==
    \/ OutputDir /\ UNCHANGED <<varsPatch, varsWrite, varsLog, varsRun>>
    \/ ApplyLatestL1Fork /\ UNCHANGED <<varsPatch, varsWrite, varsLog, varsRun>>
    \/ GenesisDelay /\ UNCHANGED <<varsPatch, varsWrite, varsLog, varsRun>>
    \/ BuildStart /\ UNCHANGED <<varsPatch, varsWrite, varsLog, varsRun>>
    \/ BuildAssemble /\ UNCHANGED <<varsPatch, varsWrite, varsLog, varsRun>>
    \/ BuildEmit /\ UNCHANGED <<varsPatch, varsWrite, varsLog, varsRun>>
    \/ BuildDeriveL2 /\ UNCHANGED <<varsPatch, varsWrite, varsLog, varsRun>>
    \/ BuildRollup /\ UNCHANGED <<varsPatch, varsWrite, varsLog, varsRun>>

StartBuild == InitBuilder /\ InitBuild /\ IdlePatch /\ IdleWrite /\ InitLog /\ InitRun

SpecBuild == StartBuild /\ [][NextBuild]_vars

\* LogOutput is called on the output of a Build that has returned; the
\* builder and the other operations stand still meanwhile
NextLog ==
    \/ \E c \in Services : LogCall(c) /\ UNCHANGED <<varsPatch, varsWrite, varsBuilder, varsBuild, varsRun>>
    \/ \E c \in Services : LogLock(c) /\ UNCHANGED <<varsPatch, varsWrite, varsBuilder, varsBuild, varsRun>>
    \/ \E c \in Services : LogMkdir(c) /\ UNCHANGED <<varsPatch, varsWrite, varsBuilder, varsBuild, varsRun>>
    \/ \E c \in Services : LogCreate(c) /\ UNCHANGED <<varsPatch, varsWrite, varsBuilder, varsBuild, varsRun>>
    \/ \E c \in Services : LogUnlock(c) /\ UNCHANGED <<varsPatch, varsWrite, varsBuilder, varsBuild, varsRun>>

StartLog == InitLog /\ IdlePatch /\ IdleWrite /\ InitBuilder /\ InitBuild /\ InitRun

\* every goroutine inside LogOutput keeps running (weak fairness on its
\* steps), and a goroutine blocked in Lock gets the mutex if it is released
\* again and again (strong fairness: sync.Mutex hands a starving waiter the
\* mutex)
FairLog ==
    \A c \in Services :
        /\ SF_varsLog(LogLock(c))
        /\ WF_varsLog(LogMkdir(c))
        /\ WF_varsLog(LogCreate(c))
        /\ WF_varsLog(LogUnlock(c))

SpecLog == StartLog /\ [][NextLog]_vars

SpecLogFair == SpecLog /\ FairLog

NextRunIt ==
    \/ RunItConfigure /\ UNCHANGED <<varsPatch, varsWrite, varsLog>>
    \/ RunItBuild /\ UNCHANGED <<varsPatch, varsWrite, varsLog, varsRun>>
    \/ BuildAssemble /\ UNCHANGED <<varsPatch, varsWrite, varsLog, varsRun>>
    \/ BuildEmit /\ UNCHANGED <<varsPatch, varsWrite, varsLog, varsRun>>
    \/ BuildDeriveL2 /\ UNCHANGED <<varsPatch, varsWrite, varsLog, varsRun>>
    \/ BuildRollup /\ UNCHANGED <<varsPatch, varsWrite, varsLog, varsRun>>
    \/ RunItBuilt /\ UNCHANGED <<varsPatch, varsWrite, varsLog>>
    \/ RunItGraph /\ UNCHANGED <<varsPatch, varsWrite, varsLog>>

StartRunIt == InitRun /\ InitBuilder /\ InitBuild /\ IdlePatch /\ IdleWrite /\ InitLog

SpecRunIt == StartRunIt /\ [][NextRunIt]_vars

====
